---- MODULE Spec2Model ----
(***************************************************************************)
(* Model of the Meta AI Analyst service: the store (snapshots, events      *)
(* health, diagnostics, overviews), the snapshot service, the diagnostic   *)
(* engine and the overview generation of AIAnalyst, as run by the HTTP     *)
(* routes and by the background daily job.                                 *)
(*                                                                         *)
(* Dates are whole days (integers).  Money, counts and frequencies are     *)
(* integers (frequency in hundredths); percentages and ratios are compared *)
(* exactly by cross-multiplication.                                         *)
(***************************************************************************)
EXTENDS Integers, Sequences, FiniteSets, Bags, TLC

\* ---------------------------------------------------------------- bounds
MaxDate == 1
MaxCalls == 2

Dates == 1..MaxDate

\* The two threads of the application (main.py): the asyncio event loop
\* serving the routes, and the BackgroundScheduler thread running the job.
Procs == {"http", "scheduler"}

\* settings.meta_ad_account_id: the one configured account.
ad_account_id == "act_1"

None == <<>>
Some(v) == <<v>>
IsNone(o) == o = <<>>

\* dict.get(key, default)
Get(d, k, default) == IF k \in DOMAIN d THEN d[k] ELSE default

EmptyDict == [k \in {} |-> 0]

Max(S) == CHOOSE m \in S : \A n \in S : n <= m

\* ------------------------------------------------------- collaborator data
\* What MetaAPIClient.get_account_insights can return: {} when the platform
\* has no insight row, else the converted metrics (cpm None when absent).
InsightsResults ==
  { EmptyDict,
    [spend |-> 100, impressions |-> 1000, clicks |-> 10, reach |-> 500,
     frequency |-> 200, cpm |-> Some(10)] }

\* What MetaAPIClient.get_campaign_insights can return (spend per campaign);
\* [] on a platform error.
CampaignResults ==
  { <<>>,
    <<[spend |-> 90], [spend |-> 10]>> }

\* What MetaAPIClient.get_events_manager_data can return: the stats of the
\* pixels, flattened; <<>> stands for "no pixels" (also the error result).
EventsResults ==
  { <<>>,
    <<[events_received |-> 10, events_dropped |-> 1, events_duplicate |-> 0,
       events_matched |-> 9]>> }

\* ------------------------------------------------- language-model responses
\* A JSON value: an object (its members), or an array.
JObject(m) == [type |-> "object", members |-> m]
JArray(s) == [type |-> "array", items |-> s]

FullBody(s) ==
  JObject([summary |-> s,
           key_changes |-> <<[metric |-> "spend"]>>,
           insights |-> <<>>,
           recommendations |-> <<[recommendation |-> "watch"]>>])

\* The text of a completion is a sequence of tokens: a code-fence marker
\* that opens a json block, a bare three-backquote marker, or a run of text
\* that either is the serialisation of a JSON value or is not JSON at all.
FenceJson == [tok |-> "fence_json"]
Fence == [tok |-> "fence"]
JsonText(v) == [tok |-> "text", valid |-> TRUE, value |-> v]
Garbage == [tok |-> "text", valid |-> FALSE]

Completions ==
  { <<JsonText(FullBody("A"))>>,
    <<FenceJson, JsonText(FullBody("A")), Fence>>,
    <<Garbage>>,
    <<JsonText(JObject(EmptyDict))>>,
    <<JsonText(JArray(<<>>))>> }

\* content.startswith / endswith on the token level, and the clean-up of
\* generate_daily_overview.
StartsWith(c, t) == Len(c) > 0 /\ c[1] = t
EndsWith(c, t) == Len(c) > 0 /\ c[Len(c)] = t

StripFences(content) ==
  LET c1 == IF StartsWith(content, FenceJson) THEN Tail(content) ELSE content
      c2 == IF StartsWith(c1, Fence) THEN Tail(c1) ELSE c1
      c3 == IF EndsWith(c2, Fence) THEN SubSeq(c2, 1, Len(c2) - 1) ELSE c2
  IN c3

\* json.loads: succeeds exactly on a single run of valid JSON text.
JsonParses(c) == Len(c) = 1 /\ c[1].tok = "text" /\ c[1].valid
json_loads(c) == c[1].value

\* json.dumps of a list, and its inverse on such a string.
json_dumps(v) == [json_text |-> v]

\* Variant: the decoding loses the items of the stored list.
json_loads_str_empty(s) == <<>>

json_loads_str(s) == s.json_text

\* The four top-level keys the prompt asks for.
RequiredKeys == {"summary", "key_changes", "insights", "recommendations"}
HasRequiredShape(v) == v.type = "object" /\ RequiredKeys \subseteq DOMAIN v.members

\* ------------------------------------------------------------------ state
VARIABLES
  snapshots,    \* table ad_account_snapshots
  health,       \* table events_manager_health
  diagnostics,  \* table diagnostic_results
  overviews,    \* table daily_overviews
                \* (each table is a bag of rows; the surrogate id and the
                \* server-side timestamps are left out)
  pc,           \* per thread: the statement it is about to execute
  op,           \* per thread: the entry point it runs ("job", "snapshot", "overview")
  target_date,  \* per thread: the date argument of the running call
  snapshot,     \* per thread: local `snapshot` (an Option of a row)
  content,      \* per thread: local `content`, the cleaned completion text
  overview_data,\* per thread: local `overview_data`, the parsed JSON
  result,       \* per thread: the value the running call returned
  added,        \* per thread: number of diagnostic rows the running
                \* generate_daily_overview call has persisted
  invoked,      \* per thread: the collaborators the running call has invoked
  context,      \* per thread: local `context`, the bundle last assembled by
                \* the running generate_daily_overview call
  parse_failed, \* dates for which a generation ended in a parse failure
  calls,        \* number of entry-point calls started so far
  engine        \* the analysis layer called directly: the days elapsed, the
                \* snapshot of today, and the last call with what its
                \* queries and collaborators gave it and what it returned

vars == <<snapshots, health, diagnostics, overviews, pc, op, target_date,
          snapshot, content, overview_data, result, added, invoked,
          parse_failed, calls, engine, context>>

\* The distinct rows of a table, an insert, the sub-table of a set of its
\* rows (a WHERE clause) and the number of rows in it.
Rows(table) == BagToSet(table)
Insert(table, row) == table (+) SetToBag({row})
Select(table, rows) == [r \in rows |-> table[r]]
Count(table, rows) == BagCardinality(Select(table, rows))

\* ------------------------------------------------------------ sequences
RECURSIVE SumSeq(_)
SumSeq(s) == IF s = <<>> THEN 0 ELSE Head(s) + SumSeq(Tail(s))

Min2(a, b) == IF a < b THEN a ELSE b
Abs(x) == IF x < 0 THEN 0 - x ELSE x

\* ORDER BY snapshot_date DESC (rows of equal date in some order the
\* database picks), then LIMIT n.
RECURSIVE OrderByDateDesc(_)
OrderByDateDesc(rows) ==
  IF rows = EmptyBag THEN <<>>
  ELSE LET r == CHOOSE x \in Rows(rows) :
                  \A y \in Rows(rows) : y.snapshot_date <= x.snapshot_date
       IN <<r>> \o OrderByDateDesc(rows (-) SetToBag({r}))

Limit(s, n) == SubSeq(s, 1, Min2(n, Len(s)))

\* --------------------------------------------------------- AnalyticsEngine
\* Variant: the window reaches up to and including the current date.
snapshots_7d_inclusive(cur) ==
  Limit(OrderByDateDesc(Select(snapshots, {s \in Rows(snapshots) :
          /\ s.ad_account_id = cur.ad_account_id
          /\ s.snapshot_date >= cur.snapshot_date - 7
          /\ s.snapshot_date <= cur.snapshot_date})), 7)

\* The trailing window query shared by fatigue, saturation and auction.
snapshots_7d(cur) ==
  Limit(OrderByDateDesc(Select(snapshots, {s \in Rows(snapshots) :
          /\ s.ad_account_id = cur.ad_account_id
          /\ s.snapshot_date >= cur.snapshot_date - 7
          /\ s.snapshot_date < cur.snapshot_date})), 7)

\* A rational number as a pair; values are compared by cross-multiplication
\* (denominators are positive).
Frac(n, d) == [num |-> n, den |-> d]
FracEq(a, b) == a.num * b.den = b.num * a.den
FracLess(a, b) == a.num * b.den < b.num * a.den

\* The recommendation text of a category, as each compute_* chooses it.
recommendation(type, severity) ==
  CASE type = "fatigue" ->
         IF severity = "high"
         THEN "High ad fatigue detected. Urgent action recommended: refresh creatives, expand audiences, or reduce frequency caps."
         ELSE "Consider refreshing creative assets or adjusting audience targeting to reduce ad fatigue."
    [] type = "saturation" ->
         IF severity = "high"
         THEN "High saturation detected. Consider significant audience expansion, new creative angles, or exploring new markets/placements."
         ELSE "Market may be reaching saturation. Consider testing new audiences, expanding to new placements, or adjusting bid strategies."
    [] type = "delivery_concentration" ->
         IF severity = "low"
         THEN "Delivery is well-distributed across campaigns."
         ELSE "High delivery concentration detected. Consider diversifying spend across more campaigns to reduce risk."
    [] type = "auction_shifts" ->
         IF severity = "low"
         THEN "Auction dynamics are relatively stable."
         ELSE "Significant auction shifts detected. Monitor competitive landscape and consider bid adjustments."
    [] type = "tracking_degradation" ->
         IF severity = "high"
         THEN "Significant tracking degradation. Urgent review of tracking setup required. Check pixel health, iOS attribution, and server-side tracking."
         ELSE "Tracking degradation detected. Review Events Manager setup, check for iOS 14.5+ impacts, verify pixel implementation."

\* The DiagnosticResult object (confidence in hundredths; the explanation
\* text, built from the same numbers, is left out).
Diag(cur, type, severity, confidence, numbers) ==
  [snapshot_date |-> cur.snapshot_date, diagnostic_type |-> type,
   current_value |-> numbers.current_value,
   previous_value |-> numbers.previous_value,
   change_percentage |-> numbers.change_percentage,
   severity |-> severity, confidence |-> confidence,
   recommendation |-> recommendation(type, severity),
   diagnostic_metadata |-> numbers.diagnostic_metadata]

\* Variant: the confidence of fatigue is not capped at 0.95.
compute_fatigue_uncapped(cur) ==
  LET w == snapshots_7d(cur)
      n == Len(w)
      total == SumSeq([i \in 1..n |-> w[i].frequency])
      recent == cur.frequency
      frequency_increase == Frac((recent * n - total) * 100, total)
      Over(t) == FracLess(Frac(t, 1), frequency_increase)
  IN IF n < 3 THEN None
     ELSE IF total = 0 THEN None
     ELSE Some(Diag(cur, "fatigue",
                    IF Over(30) THEN "high" ELSE IF Over(15) THEN "medium" ELSE "low",
                    60 + 10 * n,
                    [current_value |-> Frac(recent, 1),
                     previous_value |-> Some(Frac(total, n)),
                     change_percentage |-> Some(frequency_increase),
                     diagnostic_metadata |-> [snapshots_analyzed |-> n]]))

\* Variant: the severity thresholds of fatigue are inclusive (>=).
compute_fatigue_inclusive(cur) ==
  LET w == snapshots_7d(cur)
      n == Len(w)
      total == SumSeq([i \in 1..n |-> w[i].frequency])
      recent == cur.frequency
      frequency_increase == Frac((recent * n - total) * 100, total)
      Over(t) == ~FracLess(frequency_increase, Frac(t, 1))
  IN IF n < 3 THEN None
     ELSE IF total = 0 THEN None
     ELSE Some(Diag(cur, "fatigue",
                    IF Over(30) THEN "high" ELSE IF Over(15) THEN "medium" ELSE "low",
                    Min2(95, 60 + 10 * n),
                    [current_value |-> Frac(recent, 1),
                     previous_value |-> Some(Frac(total, n)),
                     change_percentage |-> Some(frequency_increase),
                     diagnostic_metadata |-> [snapshots_analyzed |-> n]]))

\* Each compute_* returns an Option: None for a skip, Some(result) otherwise.
compute_fatigue(cur) ==
  LET w == snapshots_7d(cur)
      n == Len(w)
      total == SumSeq([i \in 1..n |-> w[i].frequency])
      recent == cur.frequency
      \* avg_frequency_7d = total / n
      frequency_increase == Frac((recent * n - total) * 100, total)
      Over(t) == FracLess(Frac(t, 1), frequency_increase)
  IN IF n < 3 THEN None
     ELSE IF total = 0 THEN None
     ELSE Some(Diag(cur, "fatigue",
                    IF Over(30) THEN "high" ELSE IF Over(15) THEN "medium" ELSE "low",
                    Min2(95, 60 + 10 * n),
                    [current_value |-> Frac(recent, 1),
                     previous_value |-> Some(Frac(total, n)),
                     change_percentage |-> Some(frequency_increase),
                     diagnostic_metadata |-> [snapshots_analyzed |-> n]]))

compute_saturation(cur) ==
  LET w == snapshots_7d(cur)
      n == Len(w)
      sum_reach == SumSeq([i \in 1..n |-> w[i].reach])
      sum_spend == SumSeq([i \in 1..n |-> w[i].spend])
      \* averages are sums over n; the n cancels in every ratio below
      reach_change == Frac((cur.reach * n - sum_reach) * 100, sum_reach)
      spend_change == Frac((cur.spend * n - sum_spend) * 100, sum_spend)
      reach_per_dollar == IF cur.spend > 0 THEN Frac(cur.reach, cur.spend)
                          ELSE Frac(0, 1)
      avg_reach_per_dollar == Frac(sum_reach, sum_spend)
      efficiency_decline ==
        IF avg_reach_per_dollar.num > 0
        THEN Frac((reach_per_dollar.num * sum_spend
                     - sum_reach * reach_per_dollar.den) * 100,
                  sum_reach * reach_per_dollar.den)
        ELSE Frac(0, 1)
      Below(t) == FracLess(efficiency_decline, Frac(0 - t, 1))
  IN IF n < 3 THEN None
     ELSE IF sum_reach = 0 \/ sum_spend = 0 THEN None
     ELSE Some(Diag(cur, "saturation",
                    IF Below(20) THEN "high" ELSE IF Below(10) THEN "medium" ELSE "low",
                    Min2(95, 65 + 10 * n),
                    [current_value |-> reach_per_dollar,
                     previous_value |-> Some(avg_reach_per_dollar),
                     change_percentage |-> Some(efficiency_decline),
                     diagnostic_metadata |->
                       [reach_change |-> reach_change,
                        spend_change |-> spend_change,
                        snapshots_analyzed |-> n]]))

\* Variant: the Herfindahl index sums the shares instead of their squares.
compute_delivery_concentration_unsquared(cur, campaigns) ==
  LET n == Len(campaigns)
      spends == [i \in 1..n |-> campaigns[i].spend]
      total_spend == SumSeq(spends)
      \* spend_shares[i] = spends[i] / total_spend
      herfindahl_index ==
        Frac(SumSeq([i \in 1..n |-> spends[i]]), total_spend)
      concentration_ratio == Frac(Max({spends[i] : i \in 1..n}), total_spend)
      \* concentration_ratio > a/10 ; herfindahl_index > b/10
      Ratio(a) == FracLess(Frac(a, 10), concentration_ratio)
      Hhi(b) == FracLess(Frac(b, 10), herfindahl_index)
  IN IF n < 2 THEN None
     ELSE IF total_spend = 0 THEN None
     ELSE Some(Diag(cur, "delivery_concentration",
                    IF Ratio(7) \/ Hhi(5) THEN "high"
                    ELSE IF Ratio(5) \/ Hhi(3) THEN "medium" ELSE "low",
                    80,
                    [current_value |-> concentration_ratio,
                     previous_value |-> None,
                     change_percentage |-> None,
                     diagnostic_metadata |->
                       [herfindahl_index |-> herfindahl_index,
                        total_campaigns |-> n,
                        top_campaign_spend_share |-> concentration_ratio]]))

compute_delivery_concentration(cur, campaigns) ==
  LET n == Len(campaigns)
      spends == [i \in 1..n |-> campaigns[i].spend]
      total_spend == SumSeq(spends)
      \* spend_shares[i] = spends[i] / total_spend
      herfindahl_index ==
        Frac(SumSeq([i \in 1..n |-> spends[i] * spends[i]]), total_spend * total_spend)
      concentration_ratio == Frac(Max({spends[i] : i \in 1..n}), total_spend)
      \* concentration_ratio > a/10 ; herfindahl_index > b/10
      Ratio(a) == FracLess(Frac(a, 10), concentration_ratio)
      Hhi(b) == FracLess(Frac(b, 10), herfindahl_index)
  IN IF n < 2 THEN None
     ELSE IF total_spend = 0 THEN None
     ELSE Some(Diag(cur, "delivery_concentration",
                    IF Ratio(7) \/ Hhi(5) THEN "high"
                    ELSE IF Ratio(5) \/ Hhi(3) THEN "medium" ELSE "low",
                    80,
                    [current_value |-> concentration_ratio,
                     previous_value |-> None,
                     change_percentage |-> None,
                     diagnostic_metadata |->
                       [herfindahl_index |-> herfindahl_index,
                        total_campaigns |-> n,
                        top_campaign_spend_share |-> concentration_ratio]]))

\* Variant: the confidence of auction shifts is not capped at 0.95.
compute_auction_shifts_uncapped(cur) ==
  LET w == snapshots_7d(cur)
      cpm_values == SelectSeq([i \in 1..Len(w) |-> w[i].cpm], LAMBDA c : ~IsNone(c))
      k == Len(cpm_values)
      total == SumSeq([i \in 1..k |-> cpm_values[i][1]])
      sum_sq == SumSeq([i \in 1..k |-> cpm_values[i][1] * cpm_values[i][1]])
      recent == cur.cpm[1]
      \* avg_cpm_7d = total / k; both figures are 0 unless the average is > 0
      cpm_change == IF total > 0 THEN Frac((recent * k - total) * 100, total)
                    ELSE Frac(0, 1)
      \* the square of cpm_volatility = (np.std / avg) * 100, with the
      \* population variance (k * sum_sq - total^2) / k^2
      cpm_volatility_sq ==
        IF total > 0 THEN Frac(10000 * (k * sum_sq - total * total), total * total)
        ELSE Frac(0, 1)
      Change(t) == FracLess(Frac(t, 1), Frac(Abs(cpm_change.num), cpm_change.den))
      Volat(t) == FracLess(Frac(t * t, 1), cpm_volatility_sq)
  IN IF Len(w) < 3 THEN None
     ELSE IF IsNone(cur.cpm) THEN None
     ELSE IF k < 2 THEN None
     ELSE Some(Diag(cur, "auction_shifts",
                    IF Change(25) \/ Volat(20) THEN "high"
                    ELSE IF Change(15) \/ Volat(15) THEN "medium" ELSE "low",
                    70 + 10 * k,
                    [current_value |-> Frac(recent, 1),
                     previous_value |-> Some(Frac(total, k)),
                     change_percentage |-> Some(cpm_change),
                     diagnostic_metadata |->
                       [cpm_volatility_sq |-> cpm_volatility_sq,
                        snapshots_analyzed |-> k]]))

compute_auction_shifts(cur) ==
  LET w == snapshots_7d(cur)
      cpm_values == SelectSeq([i \in 1..Len(w) |-> w[i].cpm], LAMBDA c : ~IsNone(c))
      k == Len(cpm_values)
      total == SumSeq([i \in 1..k |-> cpm_values[i][1]])
      sum_sq == SumSeq([i \in 1..k |-> cpm_values[i][1] * cpm_values[i][1]])
      recent == cur.cpm[1]
      \* avg_cpm_7d = total / k; both figures are 0 unless the average is > 0
      cpm_change == IF total > 0 THEN Frac((recent * k - total) * 100, total)
                    ELSE Frac(0, 1)
      \* the square of cpm_volatility = (np.std / avg) * 100, with the
      \* population variance (k * sum_sq - total^2) / k^2
      cpm_volatility_sq ==
        IF total > 0 THEN Frac(10000 * (k * sum_sq - total * total), total * total)
        ELSE Frac(0, 1)
      Change(t) == FracLess(Frac(t, 1), Frac(Abs(cpm_change.num), cpm_change.den))
      Volat(t) == FracLess(Frac(t * t, 1), cpm_volatility_sq)
  IN IF Len(w) < 3 THEN None
     ELSE IF IsNone(cur.cpm) THEN None
     ELSE IF k < 2 THEN None
     ELSE Some(Diag(cur, "auction_shifts",
                    IF Change(25) \/ Volat(20) THEN "high"
                    ELSE IF Change(15) \/ Volat(15) THEN "medium" ELSE "low",
                    Min2(95, 70 + 10 * k),
                    [current_value |-> Frac(recent, 1),
                     previous_value |-> Some(Frac(total, k)),
                     change_percentage |-> Some(cpm_change),
                     diagnostic_metadata |->
                       [cpm_volatility_sq |-> cpm_volatility_sq,
                        snapshots_analyzed |-> k]]))

\* The rows the query for recent_health matches; .first() has no ORDER BY.
recent_health_rows(cur) ==
  {h \in Rows(health) : /\ h.snapshot_date >= cur.snapshot_date - 1
                        /\ h.snapshot_date <= cur.snapshot_date}

RecentHealthChoices(cur) ==
  IF recent_health_rows(cur) = {} THEN {None}
  ELSE {Some(h) : h \in recent_health_rows(cur)}

historical_health(cur) ==
  Limit(OrderByDateDesc(Select(health, {h \in Rows(health) :
          /\ h.snapshot_date >= cur.snapshot_date - 7
          /\ h.snapshot_date < cur.snapshot_date})), 7)

\* Sum of the fractions num/den of a sequence, as one fraction.
RECURSIVE FracSum(_)
FracSum(s) ==
  IF s = <<>> THEN [num |-> 0, den |-> 1]
  ELSE LET r == FracSum(Tail(s))
       IN [num |-> Head(s).num * r.den + r.num * Head(s).den,
           den |-> Head(s).den * r.den]

compute_tracking_degradation(cur, recent_health) ==
  LET hist == historical_health(cur)
      scores == [i \in 1..Len(hist) |-> hist[i].tracking_quality_score]
      k == Len(scores)
      S == FracSum(scores)
      r == recent_health[1].tracking_quality_score
      avg_score == Frac(S.num, S.den * k)
      score_decline == Frac(avg_score.num * r.den - r.num * avg_score.den,
                            avg_score.den * r.den)
      \* score_decline > t/100
      Decline(t) == FracLess(Frac(t, 100), score_decline)
  IN IF IsNone(recent_health) THEN None
     ELSE IF Len(hist) < 2 THEN None
     ELSE Some(Diag(cur, "tracking_degradation",
                    IF Decline(15) THEN "high" ELSE IF Decline(8) THEN "medium" ELSE "low",
                    85,
                    [current_value |-> r,
                     previous_value |-> Some(avg_score),
                     change_percentage |->
                       Some(Frac((0 - score_decline.num) * 100, score_decline.den)),
                     diagnostic_metadata |->
                       [events_received |-> recent_health[1].events_received,
                        events_dropped |-> recent_health[1].events_dropped,
                        snapshots_analyzed |-> Len(hist)]]))

\* The five categories in the order compute_all_diagnostics runs them.
Categories ==
  <<"fatigue", "saturation", "delivery_concentration", "auction_shifts",
    "tracking_degradation">>

\* try: ... except Exception: log, return None -- the wrapper around the body
\* of every compute_*; `raised` says whether the body raised.
try_except(raised, value) == IF raised THEN None ELSE value

\* Variant: the categories run inside one shared try block, so an exception
\* in one of them drops the results of all.
all_diagnostics_shared_try(cur, campaigns, recent_health, faults) ==
  IF faults # {} THEN <<>>
  ELSE compute_fatigue(cur) \o compute_saturation(cur)
         \o compute_delivery_concentration(cur, campaigns)
         \o compute_auction_shifts(cur)
         \o compute_tracking_degradation(cur, recent_health)

\* compute_all_diagnostics when the bodies of the categories in `faults`
\* raise: each category is appended when its compute_* returned a result.
all_diagnostics(cur, campaigns, recent_health, faults) ==
  try_except("fatigue" \in faults, compute_fatigue(cur))
    \o try_except("saturation" \in faults, compute_saturation(cur))
    \o try_except("delivery_concentration" \in faults,
                  compute_delivery_concentration(cur, campaigns))
    \o try_except("auction_shifts" \in faults, compute_auction_shifts(cur))
    \o try_except("tracking_degradation" \in faults,
                  compute_tracking_degradation(cur, recent_health))

\* The list compute_all_diagnostics returns, given what the campaign fetch
\* returned and which row the recent_health query produced, when no
\* category raises.
compute_all_diagnostics(cur, campaigns, recent_health) ==
  all_diagnostics(cur, campaigns, recent_health, {})

\* for diag in diagnostics: db.add(diag); db.commit()
RECURSIVE AddAll(_, _)
AddAll(table, results) ==
  IF results = <<>> THEN table
  ELSE AddAll(Insert(table, Head(results)), Tail(results))


\* ------------------------------------------------------------------ store
\* The distinct rows of a date, per table.
snapshots_on(d) ==
  {s \in Rows(snapshots) : s.snapshot_date = d /\ s.ad_account_id = ad_account_id}

health_on(d) == {h \in Rows(health) : h.snapshot_date = d}

overviews_on(d) == {o \in Rows(overviews) : o.overview_date = d}

\* Number of diagnostic rows of date d, and of date d and type t.
diagnostics_on(d) ==
  Count(diagnostics, {g \in Rows(diagnostics) : g.snapshot_date = d})

diagnostics_of(d, t) ==
  Count(diagnostics, {g \in Rows(diagnostics) :
                        g.snapshot_date = d /\ g.diagnostic_type = t})

\* Variant: the column without its unique constraint.
overview_date_not_enforced(d) == TRUE

\* DailyOverview.overview_date is declared unique=True: the store rejects
\* an insert whose date is already present.
overview_date_unique(d) == overviews_on(d) = {}

\* Variant: without an exact match the anchor is the most recent snapshot
\* of the store, whatever its date.
anchor_rows_latest(d) ==
  IF {s \in Rows(snapshots) : s.snapshot_date = d} # {}
  THEN {s \in Rows(snapshots) : s.snapshot_date = d}
  ELSE {s \in Rows(snapshots) :
          \A t \in Rows(snapshots) : t.snapshot_date <= s.snapshot_date}

\* The anchor lookup of generate_daily_overview and get_context_for_date:
\* the snapshot of the exact date, else the most recent one on or before it.
anchor_rows(d) ==
  IF {s \in Rows(snapshots) : s.snapshot_date = d} # {}
  THEN {s \in Rows(snapshots) : s.snapshot_date = d}
  ELSE {s \in Rows(snapshots) :
          /\ s.snapshot_date <= d
          /\ \A t \in Rows(snapshots) :
               t.snapshot_date <= d => t.snapshot_date <= s.snapshot_date}

\* -------------------------------------------------------- context assembly
\* What the anchor query of get_context_for_date can produce.
AnchorChoices(d) ==
  IF anchor_rows(d) = {} THEN {None} ELSE {Some(s) : s \in anchor_rows(d)}

\* The rows the previous_snapshot query can produce: the same account,
\* strictly before the anchor's date, the most recent first.
previous_rows(anchor) ==
  {s \in Rows(snapshots) :
     /\ s.ad_account_id = anchor.ad_account_id
     /\ s.snapshot_date < anchor.snapshot_date
     /\ \A t \in Rows(snapshots) :
          (t.ad_account_id = anchor.ad_account_id
             /\ t.snapshot_date < anchor.snapshot_date)
            => t.snapshot_date <= s.snapshot_date}

PreviousChoices(anchor) ==
  IF IsNone(anchor) \/ previous_rows(anchor[1]) = {} THEN {None}
  ELSE {Some(s) : s \in previous_rows(anchor[1])}

\* The events health of the anchor's exact date; .first() has no ORDER BY.
EventsHealthChoices(anchor) ==
  IF IsNone(anchor) \/ health_on(anchor[1].snapshot_date) = {} THEN {None}
  ELSE {Some(h) : h \in health_on(anchor[1].snapshot_date)}

\* The public shape of a snapshot, of a diagnostic and of a health row.
SnapshotPublic(s) ==
  [date |-> s.snapshot_date, spend |-> s.spend, impressions |-> s.impressions,
   clicks |-> s.clicks, reach |-> s.reach, frequency |-> s.frequency,
   cpm |-> s.cpm]

DiagPublic(g) ==
  [type |-> g.diagnostic_type, severity |-> g.severity,
   confidence |-> g.confidence, recommendation |-> g.recommendation,
   change_percentage |-> g.change_percentage]

HealthPublic(h) ==
  [tracking_quality_score |-> h.tracking_quality_score,
   events_received |-> h.events_received,
   events_dropped |-> h.events_dropped,
   events_matched |-> h.events_matched]

\* Variant: the percentage without the guard on its divisor, 100 when the
\* previous value is 0.
PercentChange_unguarded(a, b) == IF b > 0 THEN Frac((a - b) * 100, b) ELSE Frac(100, 1)

\* "(a - b) / b * 100 if b > 0 else 0"
PercentChange(a, b) == IF b > 0 THEN Frac((a - b) * 100, b) ELSE Frac(0, 1)

\* The expression for cpm_change subtracts the anchor's cpm from the
\* previous one whenever the previous cpm is set and positive: with no cpm
\* on the anchor it raises TypeError, which nothing in the function catches.
changes_raises(anchor, previous) ==
  /\ ~IsNone(previous)
  /\ previous[1].spend > 0
  /\ ~IsNone(previous[1].cpm)
  /\ previous[1].cpm[1] > 0
  /\ IsNone(anchor.cpm)

changes(anchor, previous) ==
  IF ~IsNone(previous) /\ previous[1].spend > 0
  THEN [spend_change |-> PercentChange(anchor.spend, previous[1].spend),
        impressions_change |-> PercentChange(anchor.impressions, previous[1].impressions),
        clicks_change |-> PercentChange(anchor.clicks, previous[1].clicks),
        cpm_change |->
          IF ~IsNone(previous[1].cpm) /\ previous[1].cpm[1] > 0
          THEN Some(PercentChange(anchor.cpm[1], previous[1].cpm[1]))
          ELSE None]
  ELSE EmptyDict

ContextRaised == [exception |-> "TypeError"]

\* The `diagnostics` entry of the bundle: the rows of a diagnostics table
\* dated a, in their public shape, each as often as it is stored.
context_diagnostics(table, a) ==
  LET found == {g \in Rows(table) : g.snapshot_date = a}
  IN [p \in {DiagPublic(g) : g \in found} |->
        Count(table, {g \in found : DiagPublic(g) = p})]

\* Variant: the history is capped at seven rows like the trailing window.
get_context_for_date_capped(d, anchor, previous, events_health) ==
  IF IsNone(anchor) THEN EmptyDict
  ELSE IF changes_raises(anchor[1], previous) THEN ContextRaised
  ELSE
    LET hist == Limit(OrderByDateDesc(Select(snapshots, {s \in Rows(snapshots) :
                   /\ s.ad_account_id = anchor[1].ad_account_id
                   /\ s.snapshot_date <= d})), 7)
    IN [current_snapshot |-> SnapshotPublic(anchor[1]),
        previous_snapshot |->
          IF IsNone(previous) THEN None ELSE Some(SnapshotPublic(previous[1])),
        changes |-> changes(anchor[1], previous),
        historical_data |-> [i \in 1..Len(hist) |-> SnapshotPublic(hist[i])],
        diagnostics |-> context_diagnostics(diagnostics, anchor[1].snapshot_date),
        events_health |->
          IF IsNone(events_health) THEN None ELSE Some(HealthPublic(events_health[1]))]

\* get_context_for_date(d), given the rows its three .first() queries
\* produced: {} without an anchor, the raised exception, or the bundle.
get_context_for_date(d, anchor, previous, events_health) ==
  IF IsNone(anchor) THEN EmptyDict
  ELSE IF changes_raises(anchor[1], previous) THEN ContextRaised
  ELSE
    LET hist == OrderByDateDesc(Select(snapshots, {s \in Rows(snapshots) :
                   /\ s.ad_account_id = anchor[1].ad_account_id
                   /\ s.snapshot_date <= d}))
    IN [current_snapshot |-> SnapshotPublic(anchor[1]),
        previous_snapshot |->
          IF IsNone(previous) THEN None ELSE Some(SnapshotPublic(previous[1])),
        changes |-> changes(anchor[1], previous),
        historical_data |-> [i \in 1..Len(hist) |-> SnapshotPublic(hist[i])],
        diagnostics |-> context_diagnostics(diagnostics, anchor[1].snapshot_date),
        events_health |->
          IF IsNone(events_health) THEN None ELSE Some(HealthPublic(events_health[1]))]

\* ---------------------------------------------------------- answer_question
openai_model == "gpt-4-turbo-preview"

\* What chat.completions.create can do for a question: reply with a text,
\* or raise.
Reply(text) == [ok |-> TRUE, content |-> text]
Failure(e) == [ok |-> FALSE, error |-> e]
AnswerCompletions == {Reply("A"), Failure("APIError")}

\* f"Error generating answer: {str(e)}"
ErrorAnswer(e) == <<"Error generating answer: ", e>>

\* Variant: the failure of the completion call propagates to the caller.
answer_question_reraises(ctx, completion) ==
  IF ctx = ContextRaised THEN ContextRaised
  ELSE IF completion.ok
  THEN [answer |-> completion.content, context_used |-> ctx,
        model |-> Some(openai_model)]
  ELSE [exception |-> completion.error]

\* answer_question, given the bundle of get_context_for_date and what the
\* completion call did.  The bundle is assembled before the try block, so
\* an exception of the assembly propagates and no completion is requested.
answer_question(ctx, completion) ==
  IF ctx = ContextRaised THEN ContextRaised
  ELSE IF completion.ok
  THEN [answer |-> completion.content, context_used |-> ctx,
        model |-> Some(openai_model)]
  ELSE [answer |-> ErrorAnswer(completion.error), context_used |-> ctx,
        model |-> None]

\* ------------------------------------------------------------ return values
NoResult == [returned |-> FALSE]

ErrorResult(e, d) == [error |-> e, overview_date |-> d]

\* The dictionary of the cached branch: list fields decoded from the row.
CachedResult(row) ==
  [overview_date |-> row.overview_date,
   summary |-> row.summary,
   key_changes |-> json_loads_str(row.key_changes),
   insights |-> json_loads_str(row.insights),
   recommendations |-> json_loads_str(row.recommendations)]

\* The DailyOverview object built from the parsed response.
DailyOverview(d, data) ==
  [overview_date |-> d,
   summary |-> Get(data.members, "summary", ""),
   key_changes |-> json_dumps(Get(data.members, "key_changes", <<>>)),
   insights |-> json_dumps(Get(data.members, "insights", <<>>)),
   recommendations |-> json_dumps(Get(data.members, "recommendations", <<>>))]

\* The dictionary of the generating branch.
GeneratedResult(row, data) ==
  [overview_date |-> row.overview_date,
   summary |-> row.summary,
   key_changes |-> Get(data.members, "key_changes", <<>>),
   insights |-> Get(data.members, "insights", <<>>),
   recommendations |-> Get(data.members, "recommendations", <<>>)]

\* The AdAccountSnapshot object built from the fetched insights.
AdAccountSnapshot(d, insights) ==
  [snapshot_date |-> d,
   ad_account_id |-> ad_account_id,
   spend |-> Get(insights, "spend", 0),
   impressions |-> Get(insights, "impressions", 0),
   clicks |-> Get(insights, "clicks", 0),
   reach |-> Get(insights, "reach", 0),
   frequency |-> Get(insights, "frequency", 0),
   cpm |-> Get(insights, "cpm", None)]

\* The EventsManagerHealth object built from the aggregated pixel stats.
EventsManagerHealth(d, stats) ==
  LET n == Len(stats)
      total_received == SumSeq([i \in 1..n |-> stats[i].events_received])
      total_dropped == SumSeq([i \in 1..n |-> stats[i].events_dropped])
      total_matched == SumSeq([i \in 1..n |-> stats[i].events_matched])
  IN [snapshot_date |-> d,
      events_received |-> total_received,
      events_dropped |-> total_dropped,
      events_matched |-> total_matched,
      tracking_quality_score |->
        IF total_received > 0 THEN [num |-> total_matched, den |-> total_received]
        ELSE [num |-> 0, den |-> 1]]

\* ------------------------------------------------------------------- Init
Init ==
  /\ snapshots = EmptyBag
  /\ health = EmptyBag
  /\ diagnostics = EmptyBag
  /\ overviews = EmptyBag
  /\ pc = [p \in Procs |-> "idle"]
  /\ op = [p \in Procs |-> "none"]
  /\ target_date = [p \in Procs |-> 1]
  /\ snapshot = [p \in Procs |-> None]
  /\ content = [p \in Procs |-> <<>>]
  /\ overview_data = [p \in Procs |-> None]
  /\ result = [p \in Procs |-> NoResult]
  /\ added = [p \in Procs |-> 0]
  /\ invoked = [p \in Procs |-> {}]
  /\ parse_failed = {}
  /\ calls = 0
  /\ context = [p \in Procs |-> EmptyDict]
  /\ engine = [phase |-> "off"]

store == <<snapshots, health, diagnostics, overviews>>
locals == <<snapshot, content, overview_data, result, added, invoked>>

\* Entry points each thread runs: the routes on the event loop, the job on
\* the scheduler thread.
EntryPoints(p) == IF p = "scheduler" THEN {"job"} ELSE {"snapshot", "overview"}

\* run_daily_job: yesterday by the clock.  The clock does not pass midnight
\* during the calls of one behaviour, so this is the latest of the dates.
Yesterday == MaxDate

\* A request arrives / the cron trigger fires on a thread that runs no call
\* (it never ran one, or its last call has returned): the locals of the
\* last call are gone, and d is the date the caller passes (the job:
\* yesterday by the clock).
Start(p) ==
  /\ pc[p] \in {"idle", "done"}
  /\ calls < MaxCalls
  /\ \E o \in EntryPoints(p), d \in Dates :
       /\ o = "job" => d = Yesterday
       /\ op' = [op EXCEPT ![p] = o]
       /\ target_date' = [target_date EXCEPT ![p] = d]
       /\ pc' = [pc EXCEPT ![p] = IF o = "overview" THEN "ov_check" ELSE "sn_check"]
  /\ snapshot' = [snapshot EXCEPT ![p] = None]
  /\ content' = [content EXCEPT ![p] = <<>>]
  /\ overview_data' = [overview_data EXCEPT ![p] = None]
  /\ result' = [result EXCEPT ![p] = NoResult]
  /\ added' = [added EXCEPT ![p] = 0]
  /\ invoked' = [invoked EXCEPT ![p] = {}]
  /\ calls' = calls + 1
  /\ context' = [context EXCEPT ![p] = EmptyDict]
  /\ UNCHANGED <<store, parse_failed, engine>>

\* --------------------------------------------------------- SnapshotService
\* Variant: the existence check never short-circuits.
sn_check_always_fetches(p) ==
  /\ pc[p] = "sn_check"
  /\ pc' = [pc EXCEPT ![p] = "sn_fetch"]
  /\ UNCHANGED <<store, op, target_date, locals, parse_failed, calls, engine, context>>

\* create_daily_snapshot: the existence check.
sn_check(p) ==
  /\ pc[p] = "sn_check"
  /\ IF snapshots_on(target_date[p]) # {}
     THEN \E existing \in snapshots_on(target_date[p]) :
            /\ snapshot' = [snapshot EXCEPT ![p] = Some(existing)]
            /\ pc' = [pc EXCEPT ![p] = "sn_events"]
     ELSE /\ pc' = [pc EXCEPT ![p] = "sn_fetch"]
          /\ UNCHANGED snapshot
  /\ UNCHANGED <<store, op, target_date, content, overview_data, result, added,
                 invoked, parse_failed, calls, engine, context>>

\* create_daily_snapshot: the platform fetch.  A failure is re-raised; the
\* route answers 500 and the job logs it.
sn_fetch(p) ==
  /\ pc[p] = "sn_fetch"
  /\ invoked' = [invoked EXCEPT ![p] = @ \cup {"get_account_insights"}]
  /\ \/ /\ result' = [result EXCEPT ![p] = [error |-> "FacebookRequestError"]]
        /\ pc' = [pc EXCEPT ![p] = "done"]
        /\ UNCHANGED snapshot
     \/ \E insights \in InsightsResults :
          /\ snapshot' = [snapshot EXCEPT ![p] =
                            Some(AdAccountSnapshot(target_date[p], insights))]
          /\ pc' = [pc EXCEPT ![p] = "sn_insert"]
          /\ UNCHANGED result
  /\ UNCHANGED <<store, op, target_date, content, overview_data, added,
                 parse_failed, calls, engine, context>>

\* create_daily_snapshot: db.add, db.commit, db.refresh.  The table has a
\* plain index on (ad_account_id, snapshot_date), so the insert always
\* succeeds.
sn_insert(p) ==
  /\ pc[p] = "sn_insert"
  /\ snapshots' = Insert(snapshots, snapshot[p][1])
  /\ pc' = [pc EXCEPT ![p] = "sn_events"]
  /\ UNCHANGED <<health, diagnostics, overviews, op, target_date, locals,
                 parse_failed, calls, engine, context>>

\* create_events_manager_snapshot, whole: existence check, fetch, aggregate,
\* insert; every failure ends in "return None".
sn_events(p) ==
  /\ pc[p] = "sn_events"
  /\ IF health_on(target_date[p]) # {}
     THEN UNCHANGED health
     ELSE \E events_data \in EventsResults :
            IF events_data = <<>>
            THEN UNCHANGED health
            ELSE health' = Insert(health,
                                  EventsManagerHealth(target_date[p], events_data))
  /\ pc' = [pc EXCEPT ![p] = "sn_diag"]
  /\ UNCHANGED <<snapshots, diagnostics, overviews, op, target_date, locals,
                 parse_failed, calls, engine, context>>

\* The caller of create_daily_snapshot computes and persists diagnostics:
\* create_snapshot (routes.py) and run_daily_job (scheduler.py).
sn_diag(p) ==
  /\ pc[p] = "sn_diag"
  /\ \E campaigns \in CampaignResults, recent \in RecentHealthChoices(snapshot[p][1]) :
       LET found == compute_all_diagnostics(snapshot[p][1], campaigns, recent)
       IN /\ diagnostics' = AddAll(diagnostics, found)
          /\ IF op[p] = "job"
             THEN /\ pc' = [pc EXCEPT ![p] = "ov_check"]
                  /\ UNCHANGED result
             ELSE /\ pc' = [pc EXCEPT ![p] = "done"]
                  /\ result' = [result EXCEPT ![p] =
                        [snapshot_date |-> snapshot[p][1].snapshot_date,
                         diagnostics_count |-> Len(found)]]
  /\ UNCHANGED <<snapshots, health, overviews, op, target_date, snapshot,
                 content, overview_data, added, invoked, parse_failed, calls, engine, context>>


\* ----------------------------------------------------------------- AIAnalyst
\* Variant: the cached branch is never taken.
ov_check_always_generates(p) ==
  /\ pc[p] = "ov_check"
  /\ pc' = [pc EXCEPT ![p] = "ov_diag"]
  /\ UNCHANGED <<store, op, target_date, locals, parse_failed, calls, engine, context>>

\* generate_daily_overview: the existence check and the cached branch.
ov_check(p) ==
  /\ pc[p] = "ov_check"
  /\ IF overviews_on(target_date[p]) # {}
     THEN \E existing \in overviews_on(target_date[p]) :
            /\ result' = [result EXCEPT ![p] = CachedResult(existing)]
            /\ pc' = [pc EXCEPT ![p] = "done"]
     ELSE /\ pc' = [pc EXCEPT ![p] = "ov_diag"]
          /\ UNCHANGED result
  /\ UNCHANGED <<store, op, target_date, snapshot, content, overview_data, added,
                 invoked, parse_failed, calls, engine, context>>

\* Variant: without an anchor snapshot the call gives up before the
\* language model is asked.
ov_diag_requires_anchor(p) ==
  /\ pc[p] = "ov_diag"
  /\ IF anchor_rows(target_date[p]) = {}
     THEN /\ result' = [result EXCEPT ![p] = ErrorResult("NoData", target_date[p])]
          /\ pc' = [pc EXCEPT ![p] = "done"]
          /\ UNCHANGED <<diagnostics, added, snapshot, context>>
     ELSE \E anchor \in anchor_rows(target_date[p]) :
            \E previous \in PreviousChoices(Some(anchor)) :
              IF changes_raises(anchor, previous)
              THEN /\ result' = [result EXCEPT ![p] = [error |-> "TypeError"]]
                   /\ pc' = [pc EXCEPT ![p] = "done"]
                   /\ UNCHANGED <<diagnostics, added, snapshot, context>>
              ELSE \E campaigns \in CampaignResults, recent \in RecentHealthChoices(anchor),
                      events_health \in EventsHealthChoices(Some(anchor)) :
                     LET found == compute_all_diagnostics(anchor, campaigns, recent)
                         first == get_context_for_date(target_date[p], Some(anchor),
                                                       previous, events_health)
                     IN /\ snapshot' = [snapshot EXCEPT ![p] = Some(anchor)]
                        /\ diagnostics' = AddAll(diagnostics, found)
                        /\ added' = [added EXCEPT ![p] = Len(found)]
                        /\ context' = [context EXCEPT ![p] =
                             [first EXCEPT !.diagnostics =
                                context_diagnostics(AddAll(diagnostics, found),
                                                    anchor.snapshot_date)]]
                        /\ pc' = [pc EXCEPT ![p] = "ov_llm"]
                        /\ UNCHANGED result
  /\ UNCHANGED <<snapshots, health, overviews, op, target_date, content,
                 overview_data, invoked, parse_failed, calls, engine>>

\* Variant: the bundle assembled before the diagnostics were computed is
\* the one kept.
ov_diag_without_reassembly(p) ==
  /\ pc[p] = "ov_diag"
  /\ IF anchor_rows(target_date[p]) = {}
     THEN /\ snapshot' = [snapshot EXCEPT ![p] = None]
          /\ context' = [context EXCEPT ![p] = EmptyDict]
          /\ pc' = [pc EXCEPT ![p] = "ov_llm"]
          /\ UNCHANGED <<diagnostics, added, result>>
     ELSE \E anchor \in anchor_rows(target_date[p]) :
            \E previous \in PreviousChoices(Some(anchor)) :
              IF changes_raises(anchor, previous)
              THEN /\ result' = [result EXCEPT ![p] = [error |-> "TypeError"]]
                   /\ pc' = [pc EXCEPT ![p] = "done"]
                   /\ UNCHANGED <<diagnostics, added, snapshot, context>>
              ELSE \E campaigns \in CampaignResults, recent \in RecentHealthChoices(anchor),
                      events_health \in EventsHealthChoices(Some(anchor)) :
                     LET found == compute_all_diagnostics(anchor, campaigns, recent)
                         first == get_context_for_date(target_date[p], Some(anchor),
                                                       previous, events_health)
                     IN /\ snapshot' = [snapshot EXCEPT ![p] = Some(anchor)]
                        /\ diagnostics' = AddAll(diagnostics, found)
                        /\ added' = [added EXCEPT ![p] = Len(found)]
                        /\ context' = [context EXCEPT ![p] =
                             first]
                        /\ pc' = [pc EXCEPT ![p] = "ov_llm"]
                        /\ UNCHANGED result
  /\ UNCHANGED <<snapshots, health, overviews, op, target_date, content,
                 overview_data, invoked, parse_failed, calls, engine>>

\* generate_daily_overview: context assembly, the anchor lookup, and
\* "if snapshot: compute_all_diagnostics, add, commit, re-assemble".  The
\* context assembly runs outside the try block: when it raises, the call
\* raises (the route answers 500, the job logs it).  The anchor query of the
\* assembly and the anchor lookup are the same query on the same store; the
\* re-assembly after the commit differs from the first assembly in the
\* diagnostics it finds.
ov_diag(p) ==
  /\ pc[p] = "ov_diag"
  /\ IF anchor_rows(target_date[p]) = {}
     THEN /\ snapshot' = [snapshot EXCEPT ![p] = None]
          /\ context' = [context EXCEPT ![p] = EmptyDict]
          /\ pc' = [pc EXCEPT ![p] = "ov_llm"]
          /\ UNCHANGED <<diagnostics, added, result>>
     ELSE \E anchor \in anchor_rows(target_date[p]) :
            \E previous \in PreviousChoices(Some(anchor)) :
              IF changes_raises(anchor, previous)
              THEN /\ result' = [result EXCEPT ![p] = [error |-> "TypeError"]]
                   /\ pc' = [pc EXCEPT ![p] = "done"]
                   /\ UNCHANGED <<diagnostics, added, snapshot, context>>
              ELSE \E campaigns \in CampaignResults, recent \in RecentHealthChoices(anchor),
                      events_health \in EventsHealthChoices(Some(anchor)) :
                     LET found == compute_all_diagnostics(anchor, campaigns, recent)
                         first == get_context_for_date(target_date[p], Some(anchor),
                                                       previous, events_health)
                     IN /\ snapshot' = [snapshot EXCEPT ![p] = Some(anchor)]
                        /\ diagnostics' = AddAll(diagnostics, found)
                        /\ added' = [added EXCEPT ![p] = Len(found)]
                        /\ context' = [context EXCEPT ![p] =
                             [first EXCEPT !.diagnostics =
                                context_diagnostics(AddAll(diagnostics, found),
                                                    anchor.snapshot_date)]]
                        /\ pc' = [pc EXCEPT ![p] = "ov_llm"]
                        /\ UNCHANGED result
  /\ UNCHANGED <<snapshots, health, overviews, op, target_date, content,
                 overview_data, invoked, parse_failed, calls, engine>>

\* Variant: a response that does not parse is cached as an empty overview.
ov_llm_persists_on_parse_failure(p) ==
  /\ pc[p] = "ov_llm"
  /\ invoked' = [invoked EXCEPT ![p] = @ \cup {"chat_completions"}]
  /\ \/ /\ result' = [result EXCEPT ![p] = ErrorResult("APIError", target_date[p])]
        /\ pc' = [pc EXCEPT ![p] = "done"]
        /\ UNCHANGED <<content, overview_data, parse_failed, overviews>>
     \/ \E completion \in Completions :
          LET cleaned == StripFences(completion)
          IN /\ content' = [content EXCEPT ![p] = cleaned]
             /\ IF JsonParses(cleaned)
                THEN /\ overview_data' = [overview_data EXCEPT ![p] = json_loads(cleaned)]
                     /\ pc' = [pc EXCEPT ![p] = "ov_insert"]
                     /\ UNCHANGED <<result, parse_failed, overviews>>
                ELSE /\ result' = [result EXCEPT ![p] =
                                     ErrorResult("JSONDecodeError", target_date[p])]
                     /\ pc' = [pc EXCEPT ![p] = "done"]
                     /\ parse_failed' = parse_failed \cup {target_date[p]}
                     /\ overviews' =
                          IF overview_date_unique(target_date[p])
                          THEN Insert(overviews,
                                      DailyOverview(target_date[p], JObject(EmptyDict)))
                          ELSE overviews
                     /\ UNCHANGED overview_data
  /\ context' = [context EXCEPT ![p] = EmptyDict]
  /\ UNCHANGED <<snapshots, health, diagnostics, op, target_date, snapshot,
                 added, calls, engine>>

\* generate_daily_overview: the prompt built from the bundle, the chat
\* completion, the clean-up of its text and json.loads.  Any exception ends
\* in the error dictionary.  The bundle is not read after the prompt is
\* built.
ov_llm(p) ==
  /\ pc[p] = "ov_llm"
  /\ invoked' = [invoked EXCEPT ![p] = @ \cup {"chat_completions"}]
  /\ \/ /\ result' = [result EXCEPT ![p] = ErrorResult("APIError", target_date[p])]
        /\ pc' = [pc EXCEPT ![p] = "done"]
        /\ UNCHANGED <<content, overview_data, parse_failed>>
     \/ \E completion \in Completions :
          LET cleaned == StripFences(completion)
          IN /\ content' = [content EXCEPT ![p] = cleaned]
             /\ IF JsonParses(cleaned)
                THEN /\ overview_data' = [overview_data EXCEPT ![p] = json_loads(cleaned)]
                     /\ pc' = [pc EXCEPT ![p] = "ov_insert"]
                     /\ UNCHANGED <<result, parse_failed>>
                ELSE /\ result' = [result EXCEPT ![p] =
                                     ErrorResult("JSONDecodeError", target_date[p])]
                     /\ pc' = [pc EXCEPT ![p] = "done"]
                     /\ parse_failed' = parse_failed \cup {target_date[p]}
                     /\ UNCHANGED overview_data
  /\ context' = [context EXCEPT ![p] = EmptyDict]
  /\ UNCHANGED <<store, op, target_date, snapshot, added, calls, engine>>

\* generate_daily_overview: building the row (overview_data.get), db.add,
\* db.commit, db.refresh and the returned dictionary.
ov_insert(p) ==
  /\ pc[p] = "ov_insert"
  /\ IF overview_data[p].type # "object"
     THEN /\ result' = [result EXCEPT ![p] =
                          ErrorResult("AttributeError", target_date[p])]
          /\ UNCHANGED overviews
     ELSE LET row == DailyOverview(target_date[p], overview_data[p])
          IN IF overview_date_unique(target_date[p])
             THEN /\ overviews' = Insert(overviews, row)
                  /\ result' = [result EXCEPT ![p] =
                                  GeneratedResult(row, overview_data[p])]
             ELSE /\ result' = [result EXCEPT ![p] =
                                  ErrorResult("IntegrityError", target_date[p])]
                  /\ UNCHANGED overviews
  /\ pc' = [pc EXCEPT ![p] = "done"]
  /\ UNCHANGED <<snapshots, health, diagnostics, op, target_date, snapshot,
                 content, overview_data, added, invoked, parse_failed, calls, engine, context>>

\* ------------------------------------------------------------ specification
Step(p) ==
  \/ Start(p)
  \/ sn_check(p)
  \/ sn_fetch(p)
  \/ sn_insert(p)
  \/ sn_events(p)
  \/ sn_diag(p)
  \/ ov_check(p)
  \/ ov_diag(p)
  \/ ov_llm(p)
  \/ ov_insert(p)

Next == \E p \in Procs : Step(p)

Spec == Init /\ [][Next]_vars

\* The same program when calls do not overlap: a thread takes a step only
\* while the other thread runs no call.
Alone(p) == \A q \in Procs \ {p} : pc[q] \in {"idle", "done"}

NextSeq ==
  \E p \in Procs :
    \/ Alone(p) /\ Start(p)
    \/ Alone(p) /\ sn_check(p)
    \/ Alone(p) /\ sn_fetch(p)
    \/ Alone(p) /\ sn_insert(p)
    \/ Alone(p) /\ sn_events(p)
    \/ Alone(p) /\ sn_diag(p)
    \/ Alone(p) /\ ov_check(p)
    \/ Alone(p) /\ ov_diag(p)
    \/ Alone(p) /\ ov_llm(p)
    \/ Alone(p) /\ ov_insert(p)

SpecSeq == Init /\ [][NextSeq]_vars


\* ====================================================== the analysis layer
\* The diagnostic engine and the context assembly applied to a history:
\* days pass, on each the daily job either stores a snapshot (and the
\* events health of the day) or does not run; then the snapshot of today is
\* stored, and the analysis layer is called on it.  A missed day can be
\* back-filled later (POST /snapshot?date=...).
MaxDays == 4

\* Account insights of a day, as get_account_insights converts them.
InsightsA ==
  [spend |-> 100, impressions |-> 1000, clicks |-> 10, reach |-> 500,
   frequency |-> 100, cpm |-> Some(10)]
InsightsC ==
  [spend |-> 200, impressions |-> 1000, clicks |-> 10, reach |-> 600,
   frequency |-> 200, cpm |-> Some(20)]
\* a day without delivery whose cpm string is "0"
InsightsZero ==
  [spend |-> 0, impressions |-> 0, clicks |-> 0, reach |-> 0,
   frequency |-> 0, cpm |-> Some(0)]

\* a day with spend but no impression: no clicks, no cpm in the insight row
InsightsNoDelivery ==
  [spend |-> 50, impressions |-> 0, clicks |-> 0, reach |-> 0,
   frequency |-> 0, cpm |-> None]

PixelStats(received, matched) ==
  <<[events_received |-> received, events_dropped |-> 1, events_duplicate |-> 0,
     events_matched |-> matched]>>

\* What the platform gave on a past day: the insights and the pixel stats.
\* (A past day without any insight row is a day of zero spend without a
\* cpm; the two days without delivery below cover its two properties.)
HistoryDays ==
  { [insights |-> InsightsZero, events |-> <<>>],
    [insights |-> InsightsNoDelivery, events |-> <<>>],
    [insights |-> InsightsA, events |-> PixelStats(10, 9)],
    [insights |-> InsightsC, events |-> PixelStats(10, 6)] }

\* What the platform gives today.
CurrentDays ==
  { [insights |-> [InsightsA EXCEPT !.frequency = 110],
     events |-> PixelStats(10, 9) \o PixelStats(0, 3)],
    [insights |-> [InsightsA EXCEPT !.frequency = 115], events |-> PixelStats(10, 9)],
    [insights |-> [InsightsA EXCEPT !.frequency = 116, !.cpm = Some(12)],
     events |-> PixelStats(10, 8)],
    [insights |-> [InsightsA EXCEPT !.frequency = 130, !.reach = 400],
     events |-> PixelStats(10, 6)],
    [insights |-> [InsightsA EXCEPT !.frequency = 131, !.reach = 300],
     events |-> PixelStats(10, 9)],
    [insights |-> [InsightsA EXCEPT !.frequency = 260], events |-> <<>>],
    [insights |-> EmptyDict, events |-> <<>>] }

\* Campaign breakdowns get_campaign_insights can return.
EqualSpend(n) == [i \in 1..n |-> [spend |-> 60]]

EngineCampaigns ==
  CampaignResults
    \cup {EqualSpend(2), EqualSpend(3), EqualSpend(4),
          <<[spend |-> 0], [spend |-> 0]>>}

\* The categories whose body raises during one compute_all_diagnostics.
FaultSets == {{}} \cup {{Categories[i]} : i \in 1..Len(Categories)}

\* A history of seven days with the frequencies 2.0, 2.1, 1.9, 2.0, 2.05,
\* 1.95, 2.0.
ExampleFrequencies == <<200, 210, 190, 200, 205, 195, 200>>

ExampleHistory ==
  SetToBag({AdAccountSnapshot(d, [InsightsA EXCEPT !.frequency = ExampleFrequencies[d]]) :
              d \in 1..Len(ExampleFrequencies)})

\* The store after the account was reconfigured and a day was stored twice:
\* the example history, a snapshot of the formerly configured account on day
\* 5, and a second, identical row for day 1 (two overlapping runs of
\* create_daily_snapshot).
other_account_id == "act_0"

MixedHistory ==
  ExampleHistory
    (+) SetToBag({[AdAccountSnapshot(5, [InsightsC EXCEPT !.frequency = 900])
                     EXCEPT !.ad_account_id = other_account_id]})
    (+) SetToBag({AdAccountSnapshot(1, [InsightsA EXCEPT !.frequency = ExampleFrequencies[1]])})

NoCall == [fn |-> "none"]

EngineInit ==
  /\ snapshots \in {EmptyBag, ExampleHistory, MixedHistory}
  /\ health = EmptyBag
  /\ diagnostics = EmptyBag
  /\ overviews = EmptyBag
  /\ pc = [p \in Procs |-> "idle"]
  /\ op = [p \in Procs |-> "none"]
  /\ target_date = [p \in Procs |-> 1]
  /\ snapshot = [p \in Procs |-> None]
  /\ content = [p \in Procs |-> <<>>]
  /\ overview_data = [p \in Procs |-> None]
  /\ result = [p \in Procs |-> NoResult]
  /\ added = [p \in Procs |-> 0]
  /\ invoked = [p \in Procs |-> {}]
  /\ parse_failed = {}
  /\ calls = 0
  /\ context = [p \in Procs |-> EmptyDict]
  /\ engine = [phase |-> "seeding",
               today |-> IF snapshots = EmptyBag THEN 0 ELSE Len(ExampleFrequencies),
               cur |-> None, call |-> NoCall]

engine_rest == <<diagnostics, overviews, pc, op, target_date, snapshot, content,
                 overview_data, result, added, invoked, parse_failed, calls,
                 context>>

\* What one run of create_daily_snapshot and create_events_manager_snapshot
\* for date d stores, given what the platform returned.
StoreDay(d, day) ==
  /\ snapshots' = Insert(snapshots, AdAccountSnapshot(d, day.insights))
  /\ health' = IF day.events = <<>> THEN health
               ELSE Insert(health, EventsManagerHealth(d, day.events))

\* A past day: the job stores the day, or does not run.
eng_day ==
  /\ engine.phase = "seeding"
  /\ engine.today + 1 < MaxDays
  /\ \/ \E day \in HistoryDays : StoreDay(engine.today + 1, day)
     \/ UNCHANGED <<snapshots, health>>
  /\ engine' = [engine EXCEPT !.today = @ + 1]
  /\ UNCHANGED engine_rest

\* Today: the snapshot the analysis is about.
eng_today ==
  /\ engine.phase = "seeding"
  /\ \E day \in CurrentDays :
       /\ StoreDay(engine.today + 1, day)
       /\ engine' = [engine EXCEPT
                       !.phase = "current", !.today = @ + 1,
                       !.cur = Some(AdAccountSnapshot(engine.today + 1, day.insights))]
  /\ UNCHANGED engine_rest

\* A missed past day is back-filled.
eng_backfill ==
  /\ engine.phase \in {"current", "called"}
  /\ engine.cur # None
  /\ \E d \in 1..(engine.today - 1), day \in HistoryDays :
       /\ snapshots_on(d) = {}
       /\ StoreDay(d, day)
  /\ engine' = [engine EXCEPT !.phase = "current", !.call = NoCall]
  /\ UNCHANGED engine_rest

\* compute_all_diagnostics(cur), the results returned to the caller.  A
\* category's body is made to raise on the run with two unequal campaigns.
eng_diagnostics ==
  /\ engine.phase = "current"
  /\ \E campaigns \in EngineCampaigns, faults \in FaultSets :
       \E recent \in RecentHealthChoices(engine.cur[1]) :
         /\ faults = {} \/ campaigns = <<[spend |-> 90], [spend |-> 10]>>
         /\ engine' = [engine EXCEPT
                         !.phase = "called",
                         !.call = [fn |-> "compute_all_diagnostics",
                                   campaigns |-> campaigns,
                                   recent_health |-> recent,
                                   faults |-> faults,
                                   out |-> all_diagnostics(engine.cur[1], campaigns,
                                                           recent, faults)]]
  /\ UNCHANGED <<snapshots, health, engine_rest>>

\* get_context_for_date(d) on the store as it is, for a date from the day
\* before the first to the day after today.
eng_context ==
  /\ engine.phase \in {"seeding", "current"}
  /\ \E d \in 0..(engine.today + 1) :
       \E anchor \in AnchorChoices(d) :
         \E previous \in PreviousChoices(anchor), events_health \in EventsHealthChoices(anchor) :
           engine' = [engine EXCEPT
                        !.phase = "called",
                        !.call = [fn |-> "get_context_for_date",
                                  target_date |-> d,
                                  account |-> IF IsNone(anchor) THEN None
                                              ELSE Some(anchor[1].ad_account_id),
                                  previous |-> previous,
                                  out |-> get_context_for_date(d, anchor, previous,
                                                               events_health)]]
  /\ UNCHANGED <<snapshots, health, engine_rest>>

\* answer_question(question, d) on the store as it is, for today (the
\* default) and for a date before all data: the bundle is assembled, then
\* the completion is requested; nothing is written.
eng_answer ==
  /\ engine.phase = "current"
  /\ \E d \in {0, engine.today} :
       \E anchor \in AnchorChoices(d) :
         \E previous \in PreviousChoices(anchor), events_health \in EventsHealthChoices(anchor) :
           \E completion \in AnswerCompletions :
             LET ctx == get_context_for_date(d, anchor, previous, events_health)
             IN /\ ctx = ContextRaised => completion = Reply("A")
                /\ engine' = [engine EXCEPT
                     !.phase = "called",
                     !.call = [fn |-> "answer_question",
                               target_date |-> d,
                               llm |-> IF ctx = ContextRaised THEN "not_called"
                                       ELSE IF completion.ok THEN "ok"
                                       ELSE "failed",
                               out |-> answer_question(ctx, completion)]]
  /\ UNCHANGED <<snapshots, health, engine_rest>>

NextEngine ==
  \/ eng_day
  \/ eng_today
  \/ eng_backfill
  \/ eng_diagnostics
  \/ eng_context
  \/ eng_answer

SpecEngine == EngineInit /\ [][NextEngine]_vars

\* ================================================================ properties
snapshot_rows_on(d) == Count(snapshots, snapshots_on(d))

overview_rows_on(d) == Count(overviews, overviews_on(d))

\* The date of the anchor snapshot of a target date that has one.
anchor_date(d) == (CHOOSE s \in anchor_rows(d) : TRUE).snapshot_date

\* C1: when calls do not overlap, once an Overview row for a date is stored
\* it never changes again, no call for that date invokes the language model,
\* and a call that checks for it goes straight to "done" with the cached
\* dictionary, having persisted no diagnostics.
C1_CachedBranchIsPureRead ==
  [][\A p \in Procs :
       /\ (pc[p] = "ov_llm" /\ pc'[p] # "ov_llm")
            => overviews_on(target_date[p]) = {}
       /\ (pc[p] = "ov_check" /\ pc'[p] # "ov_check"
             /\ overviews_on(target_date[p]) # {})
            => /\ pc'[p] = "done"
               /\ result'[p] \in {CachedResult(o) : o \in overviews_on(target_date[p])}
               /\ "chat_completions" \notin invoked'[p]
               /\ added'[p] = 0
               /\ diagnostics' = diagnostics
               /\ overviews' = overviews]_vars

C1_Witness ==
  \E p \in Procs :
    /\ pc[p] = "done"
    /\ op[p] = "overview"
    /\ "chat_completions" \notin invoked[p]
    /\ \E o \in overviews_on(target_date[p]) :
         result[p] = CachedResult(o) /\ result[p].summary = "A"

\* C2: in every reachable state, whatever the interleaving of the two
\* threads, the store holds at most one Overview row per overview_date.
C2_OneOverviewPerDate == \A d \in Dates : overview_rows_on(d) <= 1

\* Both threads generated for the same date; the second insert was rejected.
C2_Witness ==
  \E p \in Procs, q \in Procs :
    /\ p # q
    /\ target_date[p] = target_date[q]
    /\ pc[p] = "done" /\ pc[q] = "done"
    /\ result[p] = ErrorResult("IntegrityError", target_date[p])
    /\ "chat_completions" \in invoked[q]
    /\ "error" \notin DOMAIN result[q]
    /\ overview_rows_on(target_date[p]) = 1

\* C3: a caller whose insert the store rejects as a duplicate overview_date
\* returns the stored Overview record, not an error result.
C3_LoserReturnsStoredRecord ==
  [][\A p \in Procs :
       (pc[p] = "ov_insert" /\ pc'[p] = "done"
          /\ overview_data[p].type = "object"
          /\ overviews_on(target_date[p]) # {})
         => result'[p] \in {CachedResult(o) : o \in overviews_on(target_date[p])}]_vars

\* C4: a completion that does not parse as JSON after the fence clean-up
\* persists no Overview row and returns the error dictionary with the reason
\* and the target date; a call that then finds no row for its date goes on
\* to generate and, once its context is assembled, invokes the language
\* model again.
C4_ParseFailureNotPersisted ==
  [][\A p \in Procs :
       /\ (pc[p] = "ov_llm" /\ pc'[p] # "ov_llm" /\ content'[p] # <<>>
             /\ ~JsonParses(content'[p]))
            => /\ overviews' = overviews
               /\ pc'[p] = "done"
               /\ result'[p] = ErrorResult("JSONDecodeError", target_date[p])
       /\ (pc[p] = "ov_check" /\ pc'[p] # "ov_check"
             /\ target_date[p] \in parse_failed
             /\ overviews_on(target_date[p]) = {})
            => pc'[p] = "ov_diag"
       /\ (pc[p] = "ov_diag" /\ pc'[p] # "ov_diag")
            => \/ pc'[p] = "ov_llm"
               \/ pc'[p] = "done" /\ result'[p] = [error |-> "TypeError"]]_vars

\* A retry after a parse failure has succeeded and persisted.
C4_Witness ==
  \E p \in Procs :
    /\ pc[p] = "done"
    /\ target_date[p] \in parse_failed
    /\ "chat_completions" \in invoked[p]
    /\ "error" \notin DOMAIN result[p]
    /\ \E o \in overviews_on(target_date[p]) : result[p] = CachedResult(o)

\* C5: an Overview row is persisted only for a response of the required
\* shape; a response that is valid JSON without the four top-level keys
\* is answered with an error and persists nothing.
C5_MalformedNeverPersisted ==
  [][\A p \in Procs :
       (pc[p] = "ov_insert" /\ pc'[p] # "ov_insert"
          /\ ~HasRequiredShape(overview_data[p]))
         => /\ overviews' = overviews
            /\ "error" \in DOMAIN result'[p]]_vars

\* C6: when the language-model call of generate_daily_overview(D) fails,
\* the call leaves no Overview row for D and no diagnostic row of its own.
C6_CollaboratorFailureAllOrNothing ==
  \A p \in Procs :
    (pc[p] = "done" /\ result[p] = ErrorResult("APIError", target_date[p]))
      => /\ overviews_on(target_date[p]) = {}
         /\ added[p] = 0

\* C7: the Generate branch adds diagnostic rows only when the anchor
\* snapshot exists and its date has no DiagnosticResult rows yet.
C7_GenerateSkipsExistingDiagnostics ==
  [][\A p \in Procs :
       (pc[p] = "ov_diag" /\ pc'[p] # "ov_diag"
          /\ ~(/\ anchor_rows(target_date[p]) # {}
               /\ diagnostics_on(anchor_date(target_date[p])) = 0))
         => diagnostics' = diagnostics]_vars

\* C8: the diagnostics step of the snapshot trigger and of the daily job
\* adds no rows for a date that already has persisted diagnostics.
C8_TriggerNeverRecomputes ==
  [][\A p \in Procs :
       (pc[p] = "sn_diag" /\ pc'[p] # "sn_diag"
          /\ diagnostics_on(snapshot[p][1].snapshot_date) > 0)
         => diagnostics' = diagnostics]_vars

\* C9: in every reachable state, whatever the interleaving of the two
\* threads, the store holds at most one AdAccountSnapshot row per
\* (ad_account_id, snapshot_date).
C9_OneSnapshotPerAccountDate == \A d \in Dates : snapshot_rows_on(d) <= 1

\* C10: when calls do not overlap, create_daily_snapshot on a date that has
\* a snapshot returns that row without a platform fetch and without writing;
\* so a date never has more than one row and its row never changes.
C10_SnapshotShortCircuit ==
  [][/\ \A p \in Procs :
          (pc[p] = "sn_check" /\ pc'[p] # "sn_check"
             /\ snapshots_on(target_date[p]) # {})
            => /\ pc'[p] = "sn_events"
               /\ snapshot'[p] \in {Some(s) : s \in snapshots_on(target_date[p])}
               /\ "get_account_insights" \notin invoked'[p]
               /\ store' = store
     /\ \A d \in Dates :
          /\ snapshot_rows_on(d)' <= 1
          /\ snapshots_on(d) # {} => snapshots_on(d)' = snapshots_on(d)]_vars

\* A repeated call sits past the check with the stored row and no fetch.
C10_Witness ==
  \E p \in Procs :
    /\ pc[p] = "sn_events"
    /\ "get_account_insights" \notin invoked[p]
    /\ snapshot[p] \in {Some(s) : s \in snapshots_on(target_date[p])}
    /\ snapshot[p][1].spend = 100
    /\ snapshot_rows_on(target_date[p]) = 1

\* ------------------------------------------------ the analysis layer: claims
\* The position of a category in the order of compute_all_diagnostics.
CategoryIndex(t) == CHOOSE i \in 1..Len(Categories) : Categories[i] = t

\* The results of one category in a returned list.
Entries(out, t) == SelectSeq(out, LAMBDA g : g.diagnostic_type = t)

\* What the computation of one category yields on the current snapshot,
\* given what the last call was handed.
Individual(t) ==
  CASE t = "fatigue" -> compute_fatigue(engine.cur[1])
    [] t = "saturation" -> compute_saturation(engine.cur[1])
    [] t = "delivery_concentration" ->
         compute_delivery_concentration(engine.cur[1], engine.call.campaigns)
    [] t = "auction_shifts" -> compute_auction_shifts(engine.cur[1])
    [] t = "tracking_degradation" ->
         compute_tracking_degradation(engine.cur[1], engine.call.recent_health)

Called == engine.phase = "called" /\ engine.call.fn = "compute_all_diagnostics"

\* C11: the list compute_all_diagnostics returns holds its results in the
\* order fatigue, saturation, delivery concentration, auction shift,
\* tracking degradation, at most one per category; a category is in the
\* list exactly when its own computation yields a result and its body did
\* not raise, whatever happened in the other categories.
C11_AllDiagnosticsIndependent ==
  Called =>
    LET out == engine.call.out
    IN /\ \A i \in 1..Len(out), j \in 1..Len(out) :
            i < j => CategoryIndex(out[i].diagnostic_type)
                       < CategoryIndex(out[j].diagnostic_type)
       /\ \A i \in 1..Len(Categories) :
            Entries(out, Categories[i]) =
              IF Categories[i] \in engine.call.faults THEN None
              ELSE Individual(Categories[i])

\* The fatigue body raised on a snapshot for which it would have emitted,
\* and three other categories still emitted.
C11_Witness ==
  /\ Called
  /\ engine.call.faults = {"fatigue"}
  /\ compute_fatigue(engine.cur[1]) # None
  /\ Len(engine.call.out) >= 3
  /\ Entries(engine.call.out, "fatigue") = None

\* The trailing window of the current snapshot and the sum of its frequencies.
Window == snapshots_7d(engine.cur[1])
WindowFrequency == SumSeq([i \in 1..Len(Window) |-> Window[i].frequency])

\* The last call ran every category and returned a fatigue result.
FatigueEmitted ==
  /\ Called
  /\ "fatigue" \notin engine.call.faults
  /\ Entries(engine.call.out, "fatigue") # <<>>

FatigueResult == Entries(engine.call.out, "fatigue")[1]

\* The current frequency is k hundredths of the window average F:
\* cur = F * k / 100 with F = WindowFrequency / Len(Window).
FrequencyIsAverageTimes(k) ==
  engine.cur[1].frequency * Len(Window) * 100 = k * WindowFrequency

\* C12 as claimed: with a window of exactly 3 samples averaging F > 0, the
\* fatigue severity is "high" at a current frequency of F x 1.30, "medium"
\* at F x 1.15 and "low" at F x 1.10.
C12_FatigueSeverityAtThresholds ==
  (FatigueEmitted /\ Len(Window) = 3 /\ WindowFrequency > 0) =>
    /\ FrequencyIsAverageTimes(130) => FatigueResult.severity = "high"
    /\ FrequencyIsAverageTimes(115) => FatigueResult.severity = "medium"
    /\ FrequencyIsAverageTimes(110) => FatigueResult.severity = "low"

\* C12 amended: the thresholds are strict.  With a window of exactly 3
\* samples averaging F > 0 the severity is "high" exactly when the current
\* frequency is above F x 1.30 and "medium" exactly when it is above
\* F x 1.15 and at most F x 1.30; so it is "medium" at F x 1.30 and "low" at
\* F x 1.15 and at F x 1.10.
C12_FatigueThresholdsAreStrict ==
  (FatigueEmitted /\ Len(Window) = 3 /\ WindowFrequency > 0) =>
    LET cur300 == engine.cur[1].frequency * 300
        sev == FatigueResult.severity
    IN /\ FrequencyIsAverageTimes(130) => sev = "medium"
       /\ FrequencyIsAverageTimes(115) => sev = "low"
       /\ FrequencyIsAverageTimes(110) => sev = "low"
       /\ sev = "high" <=> cur300 > 130 * WindowFrequency
       /\ sev = "medium" <=> /\ cur300 > 115 * WindowFrequency
                             /\ cur300 <= 130 * WindowFrequency

\* A window of three days averaging 1.00 and a current frequency of 1.30.
C12_Witness ==
  /\ FatigueEmitted
  /\ Len(Window) = 3
  /\ WindowFrequency = 300
  /\ engine.cur[1].frequency = 130
  /\ FatigueResult.severity = "medium"

\* The window holds the seven example days and the current frequency is 2.6.
ExampleCase ==
  /\ FatigueEmitted
  /\ Len(Window) = Len(ExampleFrequencies)
  /\ \A d \in 1..Len(ExampleFrequencies) :
       Window[Len(Window) + 1 - d].frequency = ExampleFrequencies[d]
  /\ engine.cur[1].frequency = 260

WindowCpmCount == Len(SelectSeq(Window, LAMBDA w : ~IsNone(w.cpm)))

\* The confidence of a category as a function of its sample count n.
ConfidenceAt(type, n) ==
  CASE type = "fatigue" -> Min2(95, 60 + 10 * n)
    [] type = "saturation" -> Min2(95, 65 + 10 * n)
    [] type = "auction_shifts" -> Min2(95, 70 + 10 * n)
    [] type = "delivery_concentration" -> 80
    [] type = "tracking_degradation" -> 85

\* The sample count of a category in the current state.
SampleCount(type) ==
  IF type = "auction_shifts" THEN WindowCpmCount ELSE Len(Window)

\* C14: every diagnostic a call returns has a confidence in [0, 0.95], and
\* it is the value at the category's sample count n of min(0.95, 0.6 + n/10)
\* for fatigue, min(0.95, 0.65 + n/10) for saturation, min(0.95, 0.7 + n/10)
\* for auction shifts (n the number of window cpm values), 0.8 for
\* concentration and 0.85 for tracking, none of which decreases when n
\* grows by one.
C14_ConfidenceBoundedAndMonotone ==
  /\ Called =>
       \A i \in 1..Len(engine.call.out) :
         LET g == engine.call.out[i]
         IN /\ g.confidence >= 0
            /\ g.confidence <= 95
            /\ g.confidence = ConfidenceAt(g.diagnostic_type, SampleCount(g.diagnostic_type))
            /\ \A n \in 0..SampleCount(g.diagnostic_type) :
                 ConfidenceAt(g.diagnostic_type, n) <= g.confidence

\* A window of three snapshots, two of them with a cpm: fatigue and auction
\* shifts are at 0.9, below the cap, and saturation is at the cap.
C14_Witness ==
  /\ Called
  /\ engine.call.faults = {}
  /\ Len(Window) = 3
  /\ WindowCpmCount = 2
  /\ Entries(engine.call.out, "fatigue") # <<>>
  /\ Entries(engine.call.out, "fatigue")[1].confidence = 90
  /\ Entries(engine.call.out, "saturation") # <<>>
  /\ Entries(engine.call.out, "saturation")[1].confidence = 95
  /\ Entries(engine.call.out, "auction_shifts") # <<>>
  /\ Entries(engine.call.out, "auction_shifts")[1].confidence = 90

\* Sums over the trailing window of the current snapshot.
WindowReach == SumSeq([i \in 1..Len(Window) |-> Window[i].reach])
WindowSpend == SumSeq([i \in 1..Len(Window) |-> Window[i].spend])
WindowCpm ==
  SumSeq([i \in 1..Len(Window) |->
            IF IsNone(Window[i].cpm) THEN 0 ELSE Window[i].cpm[1]])
CampaignSpend ==
  SumSeq([i \in 1..Len(engine.call.campaigns) |-> engine.call.campaigns[i].spend])

\* C15: a category whose percentage or ratio divisor is zero (window average
\* frequency, average reach or spend, average cpm, total campaign spend), or
\* whose window is empty, is skipped: the call returns no diagnostic of it.
C15_ZeroDivisorSkipsCategory ==
  (Called /\ engine.call.faults = {}) =>
    LET out == engine.call.out
    IN /\ (Len(Window) = 0 \/ WindowFrequency = 0) => Entries(out, "fatigue") = <<>>
       /\ (Len(Window) = 0 \/ WindowReach = 0 \/ WindowSpend = 0)
            => Entries(out, "saturation") = <<>>
       /\ (Len(Window) = 0 \/ WindowCpm = 0) => Entries(out, "auction_shifts") = <<>>
       /\ CampaignSpend = 0 => Entries(out, "delivery_concentration") = <<>>
       /\ historical_health(engine.cur[1]) = <<>>
            => Entries(out, "tracking_degradation") = <<>>

\* C16: compute_auction_shifts emits whenever the current snapshot has a cpm
\* and the trailing window holds at least 2 snapshots with a cpm whose
\* average is positive; a window of exactly 2 snapshots is enough.
C16_AuctionNeedsTwoCpmValues ==
  (/\ Called
   /\ engine.call.faults = {}
   /\ ~IsNone(engine.cur[1].cpm)
   /\ WindowCpmCount >= 2
   /\ WindowCpm > 0)
    => Entries(engine.call.out, "auction_shifts") # <<>>

\* C17: the recommendation of a returned diagnostic depends only on whether
\* its severity is "high": a "medium" result carries the text a "low"
\* result of its category carries, and that text is not the "high" text.
C17_RecommendationBranchesOnHigh ==
  Called =>
    \A i \in 1..Len(engine.call.out) :
      LET g == engine.call.out[i]
          high == recommendation(g.diagnostic_type, "high")
          low == recommendation(g.diagnostic_type, "low")
      IN /\ low # high
         /\ g.severity = "high" => g.recommendation = high
         /\ g.severity \in {"medium", "low"} => g.recommendation = low

\* The last call returned a concentration result.
ConcentrationEmitted ==
  Called /\ Entries(engine.call.out, "delivery_concentration") # <<>>

ConcentrationResult == Entries(engine.call.out, "delivery_concentration")[1]

\* The campaigns of the last call all have the same positive spend.
EqualPositiveSpend ==
  LET c == engine.call.campaigns
  IN /\ Len(c) >= 2
     /\ c[1].spend > 0
     /\ \A i \in 1..Len(c) : c[i].spend = c[1].spend

ContextReturned ==
  /\ engine.phase = "called"
  /\ engine.call.fn = "get_context_for_date"
  /\ engine.call.out # ContextRaised

\* The dates of the stored snapshots on or before d; of the snapshots of an
\* account before d.
DatesUpTo(d) == {s.snapshot_date : s \in {r \in Rows(snapshots) : r.snapshot_date <= d}}
DatesBefore(account, d) ==
  {s.snapshot_date : s \in {r \in Rows(snapshots) :
                              r.ad_account_id = account /\ r.snapshot_date < d}}

\* C19: get_context_for_date returns an empty bundle when no snapshot is
\* dated on or before the date; and a bundle whose anchor has no previous
\* snapshot, or one whose spend is not > 0, has no `changes` entry.
C19_ChangesAbsentWithoutPrevious ==
  ContextReturned =>
    LET out == engine.call.out
        previous == engine.call.previous
    IN /\ DatesUpTo(engine.call.target_date) = {} => out = EmptyDict
       /\ (out # EmptyDict /\ (IsNone(previous) \/ ~(previous[1].spend > 0)))
            => "changes" \notin DOMAIN out

\* C20: the anchor of the returned bundle is a stored snapshot dated exactly
\* the target date if there is one, else one of the greatest date on or
\* before it, never a later one, and there is none only when the store has
\* no snapshot on or before the target date; previous_snapshot is a stored
\* snapshot of the greatest date strictly before the anchor's date, null
\* when there is none.
C20_AnchorAndPreviousResolution ==
  ContextReturned =>
    LET out == engine.call.out
        d == engine.call.target_date
    IN /\ out = EmptyDict <=> DatesUpTo(d) = {}
       /\ out # EmptyDict =>
            LET a == out.current_snapshot.date
            IN /\ a <= d
               /\ a = Max(DatesUpTo(d))
               /\ out.current_snapshot \in
                    {SnapshotPublic(r) : r \in {x \in Rows(snapshots) : x.snapshot_date = a}}
               /\ out.current_snapshot \in
                    {SnapshotPublic(r) : r \in {x \in Rows(snapshots) :
                                                  x.ad_account_id = engine.call.account[1]}}
               /\ IsNone(out.previous_snapshot)
                    <=> DatesBefore(engine.call.account[1], a) = {}
               /\ ~IsNone(out.previous_snapshot) =>
                    /\ out.previous_snapshot[1].date
                         = Max(DatesBefore(engine.call.account[1], a))
                    /\ out.previous_snapshot[1] \in
                         {SnapshotPublic(r) : r \in {x \in Rows(snapshots) :
                                                      x.ad_account_id = engine.call.account[1]}}

\* No snapshot on the target date and a later one in the store: the anchor
\* is an earlier day, and it has a previous snapshot.
C20_Witness ==
  /\ ContextReturned
  /\ engine.call.out # EmptyDict
  /\ engine.call.out.current_snapshot.date < engine.call.target_date
  /\ \E r \in Rows(snapshots) : r.snapshot_date > engine.call.target_date
  /\ ~IsNone(engine.call.out.previous_snapshot)
  /\ engine.call.out.previous_snapshot[1].date < engine.call.out.current_snapshot.date

\* The bundle of the last get_context_for_date call, when it returned one.
BundleReturned == ContextReturned /\ engine.call.out # EmptyDict

\* The stored snapshots of an account dated on or before a.
AccountRowsUpTo(account, a) ==
  {r \in Rows(snapshots) : r.ad_account_id = account /\ r.snapshot_date <= a}

\* C21: historical_data of a returned bundle holds exactly the stored
\* snapshots of the anchor's account dated on or before the anchor's date, each as
\* often as it is stored, the most recent first, whatever their number.
C21_HistoricalDataUpToAnchor ==
  BundleReturned =>
    LET h == engine.call.out.historical_data
        rows == AccountRowsUpTo(engine.call.account[1],
                                engine.call.out.current_snapshot.date)
    IN /\ Len(h) = Count(snapshots, rows)
       /\ \A i \in 1..Len(h) : h[i] \in {SnapshotPublic(r) : r \in rows}
       /\ \A r \in rows :
            Cardinality({i \in 1..Len(h) : h[i] = SnapshotPublic(r)})
              = Count(snapshots, {x \in rows : SnapshotPublic(x) = SnapshotPublic(r)})
       /\ \A i, j \in 1..Len(h) : i < j => h[i].date >= h[j].date

\* A target date later than the anchor's, with a snapshot stored after it.
C21_Witness ==
  /\ BundleReturned
  /\ engine.call.out.current_snapshot.date < engine.call.target_date
  /\ \E r \in Rows(snapshots) : r.snapshot_date > engine.call.target_date
  /\ Len(engine.call.out.historical_data) >= 2

\* (cur - prev) / prev * 100
PercentOf(cur, prev) == Frac((cur - prev) * 100, prev)

\* C22: when the previous snapshot of a returned bundle has spend > 0, the
\* changes are the day-over-day percentages: of spend; of impressions and
\* of clicks, 0 when the previous value is 0; of cpm when the previous cpm is
\* present and > 0, null otherwise.
C22_ChangesFormulas ==
  (BundleReturned /\ ~IsNone(engine.call.previous)
     /\ engine.call.previous[1].spend > 0) =>
    LET cur == engine.call.out.current_snapshot
        prev == engine.call.previous[1]
        ch == engine.call.out.changes
    IN /\ DOMAIN ch = {"spend_change", "impressions_change", "clicks_change", "cpm_change"}
       /\ FracEq(ch.spend_change, PercentOf(cur.spend, prev.spend))
       /\ IF prev.impressions = 0 THEN FracEq(ch.impressions_change, Frac(0, 1))
          ELSE FracEq(ch.impressions_change, PercentOf(cur.impressions, prev.impressions))
       /\ IF prev.clicks = 0 THEN FracEq(ch.clicks_change, Frac(0, 1))
          ELSE FracEq(ch.clicks_change, PercentOf(cur.clicks, prev.clicks))
       /\ IF ~IsNone(prev.cpm) /\ prev.cpm[1] > 0
          THEN /\ ~IsNone(ch.cpm_change)
               /\ FracEq(ch.cpm_change[1], PercentOf(cur.cpm[1], prev.cpm[1]))
          ELSE IsNone(ch.cpm_change)

\* Spend doubled from 100 to 200 with the cpm up from 10 to 20.
C22_Witness ==
  /\ BundleReturned
  /\ ~IsNone(engine.call.previous)
  /\ engine.call.previous[1].spend = 100
  /\ engine.call.out.current_snapshot.spend = 200
  /\ FracEq(engine.call.out.changes.spend_change, Frac(100, 1))
  /\ ~IsNone(engine.call.out.changes.cpm_change)
  /\ FracEq(engine.call.out.changes.cpm_change[1], Frac(100, 1))

\* C23: every stored events-health record has the score matched / received
\* when received > 0 and 0 when received = 0, and the score lies in [0, 1].
C23_QualityScoreBounded ==
  \A h \in Rows(health) :
    /\ h.events_received > 0 =>
          FracEq(h.tracking_quality_score, Frac(h.events_matched, h.events_received))
    /\ h.events_received = 0 => FracEq(h.tracking_quality_score, Frac(0, 1))
    /\ ~FracLess(h.tracking_quality_score, Frac(0, 1))
    /\ ~FracLess(Frac(1, 1), h.tracking_quality_score)

\* The fields of an overview result.
OverviewFields == {"overview_date", "summary", "key_changes", "insights", "recommendations"}

\* Thread q has returned from the call that generated and stored the
\* overview of date d.
GeneratedBy(q, d) ==
  /\ pc[q] = "done"
  /\ op[q] \in {"job", "overview"}
  /\ target_date[q] = d
  /\ "chat_completions" \in invoked[q]
  /\ "error" \notin DOMAIN result[q]

C25_GenerateOrdering ==
  [][\A p \in Procs :
       /\ (pc[p] = "ov_diag" /\ pc'[p] = "ov_llm" /\ ~IsNone(snapshot'[p]))
            => /\ BagCardinality(diagnostics')
                    = BagCardinality(diagnostics) + added'[p]
               /\ context'[p] # EmptyDict
               /\ context'[p].current_snapshot = SnapshotPublic(snapshot'[p][1])
               /\ BagCardinality(context'[p].diagnostics)
                    = Count(diagnostics', {g \in Rows(diagnostics') :
                               g.snapshot_date = snapshot'[p][1].snapshot_date})
               /\ \A g \in Rows(diagnostics') :
                    g.snapshot_date = snapshot'[p][1].snapshot_date
                      => DiagPublic(g) \in DOMAIN context'[p].diagnostics
       /\ (pc[p] = "ov_llm" /\ pc'[p] # "ov_llm")
            => /\ "chat_completions" \in invoked'[p]
               /\ "chat_completions" \notin invoked[p]
               /\ IsNone(snapshot[p]) <=> context[p] = EmptyDict
               /\ ~IsNone(snapshot[p])
                    => BagCardinality(context[p].diagnostics) >= added[p]
       /\ (pc[p] = "ov_diag" /\ pc'[p] # "ov_diag")
            => "chat_completions" \notin invoked[p]
       /\ (pc[p] = "ov_insert" /\ pc'[p] # "ov_insert" /\ overviews' # overviews)
            => "chat_completions" \in invoked[p]
       /\ (pc[p] # "ov_insert" /\ pc'[p] # pc[p]) => overviews' = overviews]_vars

\* A call that added diagnostics for its anchor is about to invoke the
\* language model with a bundle that lists them; no overview is stored yet.
C25_Witness ==
  \E p \in Procs :
    /\ pc[p] = "ov_llm"
    /\ added[p] > 0
    /\ context[p] # EmptyDict
    /\ BagCardinality(context[p].diagnostics) >= added[p]
    /\ BagCardinality(context[p].diagnostics)
         = diagnostics_on(snapshot[p][1].snapshot_date)
    /\ "chat_completions" \notin invoked[p]
    /\ overviews_on(target_date[p]) = {}

\* The stored snapshots of the current snapshot's account dated in
\* [current date - 7, current date).
TrailingRows ==
  {s \in Rows(snapshots) :
     /\ s.ad_account_id = engine.cur[1].ad_account_id
     /\ s.snapshot_date >= engine.cur[1].snapshot_date - 7
     /\ s.snapshot_date < engine.cur[1].snapshot_date}

\* How often row r occurs in the sequence w.
Occurrences(w, r) == Cardinality({i \in 1..Len(w) : w[i] = r})

\* C26: the trailing window of the current snapshot holds stored snapshots
\* of the same account dated in [current date - 7, current date) only,
\* the most recent first, all of them up to seven and the seven most recent
\* beyond; fatigue and saturation report on that window (its size and its
\* average frequency) and return nothing, without raising, when it holds
\* fewer than three snapshots.
C26_TrailingWindow ==
  (Called /\ engine.call.faults = {}) =>
    LET w == Window
        out == engine.call.out
    IN /\ Len(w) = Min2(7, Count(snapshots, TrailingRows))
       /\ \A i \in 1..Len(w) : w[i] \in TrailingRows
       /\ \A r \in TrailingRows :
            /\ Occurrences(w, r) <= snapshots[r]
            /\ Occurrences(w, r) < snapshots[r]
                 => \A i \in 1..Len(w) : r.snapshot_date <= w[i].snapshot_date
       /\ \A i, j \in 1..Len(w) : i < j => w[i].snapshot_date >= w[j].snapshot_date
       /\ Count(snapshots, TrailingRows) < 3
            => Entries(out, "fatigue") = <<>> /\ Entries(out, "saturation") = <<>>
       /\ \A t \in {"fatigue", "saturation"} :
            Entries(out, t) # <<>>
              => /\ Count(snapshots, TrailingRows) >= 3
                 /\ Entries(out, t)[1].diagnostic_metadata.snapshots_analyzed
                      = Min2(7, Count(snapshots, TrailingRows))
       /\ Entries(out, "fatigue") # <<>>
            => FracEq(Entries(out, "fatigue")[1].previous_value[1],
                      Frac(WindowFrequency, Len(w)))

\* Eight snapshots of the account in range, one of another account and
\* the current one in the store: the window holds seven.
C26_Witness ==
  /\ FatigueEmitted
  /\ engine.call.faults = {}
  /\ Count(snapshots, TrailingRows) = 8
  /\ Len(Window) = 7
  /\ \E s \in Rows(snapshots) :
       /\ s.ad_account_id # engine.cur[1].ad_account_id
       /\ s.snapshot_date >= engine.cur[1].snapshot_date - 7
       /\ s.snapshot_date < engine.cur[1].snapshot_date
  /\ engine.cur[1] \in Rows(snapshots)
  /\ FatigueResult.diagnostic_metadata.snapshots_analyzed = 7

\* The stored health records dated in [current date - 1, current date], and
\* in [current date - 7, current date).
RecentHealthRows ==
  {h \in Rows(health) : /\ h.snapshot_date >= engine.cur[1].snapshot_date - 1
                        /\ h.snapshot_date <= engine.cur[1].snapshot_date}

HistoricalHealthRows ==
  {h \in Rows(health) : /\ h.snapshot_date >= engine.cur[1].snapshot_date - 7
                        /\ h.snapshot_date < engine.cur[1].snapshot_date}

TrackingEmitted == Entries(engine.call.out, "tracking_degradation") # <<>>
TrackingResult == Entries(engine.call.out, "tracking_degradation")[1]

\* C27: tracking degradation is reported exactly when a health record dated
\* in [current date - 1, current date] exists and at least two lie in
\* [current date - 7, current date); the decline is the average historical
\* score minus the current record's score, high above 0.15, medium above
\* 0.08, else low; and with a record for the current date in the store, the
\* record used as current is one dated the current date.
C27_TrackingDegradation ==
  (Called /\ engine.call.faults = {}) =>
    /\ TrackingEmitted
         <=> (RecentHealthRows # {} /\ Count(health, HistoricalHealthRows) >= 2)
    /\ TrackingEmitted =>
         LET hist == historical_health(engine.cur[1])
             S == FracSum([i \in 1..Len(hist) |-> hist[i].tracking_quality_score])
             avg == Frac(S.num, S.den * Len(hist))
             used == engine.call.recent_health[1]
             score == used.tracking_quality_score
             decline == Frac(avg.num * score.den - score.num * avg.den,
                             avg.den * score.den)
         IN /\ used \in RecentHealthRows
            /\ FracEq(TrackingResult.current_value, score)
            /\ FracEq(TrackingResult.previous_value[1], avg)
            /\ TrackingResult.severity =
                 IF FracLess(Frac(15, 100), decline) THEN "high"
                 ELSE IF FracLess(Frac(8, 100), decline) THEN "medium" ELSE "low"
            /\ health_on(engine.cur[1].snapshot_date) # {}
                 => used.snapshot_date = engine.cur[1].snapshot_date

\* C28: whenever the store holds an anchor for the target date,
\* get_context_for_date returns a bundle and does not raise; with a
\* previous snapshot that has spend > 0, the changes of a bundle whose
\* anchor has no cpm carry a null cpm_change.
C28_ContextNeverRaises ==
  (engine.phase = "called" /\ engine.call.fn = "get_context_for_date"
     /\ DatesUpTo(engine.call.target_date) # {}) =>
    /\ engine.call.out # ContextRaised
    /\ engine.call.out # EmptyDict
    /\ (IsNone(engine.call.out.current_snapshot.cpm)
          /\ ~IsNone(engine.call.previous)
          /\ engine.call.previous[1].spend > 0)
         => IsNone(engine.call.out.changes.cpm_change)

\* The steps of a generating call that found no snapshot on or before its
\* date, and the cached branch afterwards: without an anchor the call adds
\* no diagnostics and goes on to invoke the language model with the empty
\* bundle; a stored Overview row is never removed or changed; and a call
\* that finds the row returns it without invoking the language model,
\* whatever snapshots and diagnostics the store holds by then.
EmptyContextGenerates ==
  \A p \in Procs :
    /\ (pc[p] = "ov_diag" /\ pc'[p] # "ov_diag" /\ anchor_rows(target_date[p]) = {})
         => /\ pc'[p] = "ov_llm"
            /\ context'[p] = EmptyDict
            /\ diagnostics' = diagnostics
    /\ (pc[p] = "ov_llm" /\ pc'[p] # "ov_llm")
         => "chat_completions" \in invoked'[p]
    /\ \A o \in Rows(overviews) : o \in Rows(overviews') /\ overviews'[o] = overviews[o]
    /\ (pc[p] = "ov_check" /\ pc'[p] # "ov_check" /\ overviews_on(target_date[p]) # {})
         => /\ pc'[p] = "done"
            /\ result'[p] \in {CachedResult(o) : o \in overviews_on(target_date[p])}
            /\ invoked'[p] = invoked[p]
            /\ overviews' = overviews

C30_AnswerReadOnly ==
  [][(engine'.call.fn = "answer_question" /\ engine' # engine) =>
       /\ snapshots' = snapshots
       /\ health' = health
       /\ diagnostics' = diagnostics
       /\ overviews' = overviews
       /\ engine'.call.llm \in {"ok", "failed"} =>
            /\ DOMAIN engine'.call.out = {"answer", "context_used", "model"}
            /\ engine'.call.llm = "failed" =>
                 /\ engine'.call.out.answer = ErrorAnswer("APIError")
                 /\ engine'.call.out.model = None
            /\ engine'.call.llm = "ok" =>
                 /\ engine'.call.out.answer = "A"
                 /\ engine'.call.out.model = Some(openai_model)]_vars

C30_Witness ==
  /\ engine.phase = "called"
  /\ engine.call.fn = "answer_question"
  /\ engine.call.llm = "failed"
  /\ engine.call.out.model = None
  /\ engine.call.out.answer = ErrorAnswer("APIError")
  /\ engine.call.out.context_used # EmptyDict
  /\ snapshots # EmptyBag
  /\ health # EmptyBag

====
